---------------------------- MODULE Spec2Model ----------------------------
(***************************************************************************)
(* A model of the StreamPK channel catalog (js/channels.js): the M3U8      *)
(* playlist parser, the load-once cache of ChannelManager.loadChannels and *)
(* the catalog's read queries; and of what uses the catalog: the           *)
(* FavoritesManager over localStorage (js/favorites.js), the fields of     *)
(* VideoPlayer (js/player.js) and the App's handlers (js/app.js).          *)
(*                                                                         *)
(* Text is modelled as a sequence of one-character strings, so that        *)
(* split, trim, startsWith, the attribute regular expressions and          *)
(* lastIndexOf are computed on characters as the code computes them.       *)
(* A channel object is a function from the names of the properties it has  *)
(* to their values: a property the code never set is not in its DOMAIN.    *)
(***************************************************************************)
EXTENDS Integers, Sequences, FiniteSets, TLC

VARIABLES
    channels,     \* ChannelManager.channels
    loaded,       \* ChannelManager.loaded
    pc,           \* per loadChannels() call: where the async function stands
    outcome,      \* per call: how its fetch of the playlist ended
    returned,     \* per call: the array the call resolved with
    late,         \* per call: TRUE when it was issued after some call had completed
    fetchCount,   \* number of fetch('playlist.m3u8') requests issued so far
    assignCount,  \* number of assignments to ChannelManager.channels so far
    firstResult,  \* what the first completed call left in the catalog
    completed,    \* number of loadChannels() calls that have completed
    playlist,     \* the playlist text handed to parseM3U8 (parser specification)
    parsed,       \* what parseM3U8 returned for it, with the line of each record
    query,        \* the call made in the last step, with its argument and result
    storage,      \* localStorage's item 'liveStreamFavorites': its text, or null
    storageFault, \* which localStorage accesses raise an error: "read", "write"
    currentChannel, \* VideoPlayer.currentChannel
    isIframeMode, \* VideoPlayer.isIframeMode
    player,       \* VideoPlayer.player: "null" or the JW Player instance "jw"
    search,       \* the channel parameter of window.location.search, or null
    started,      \* App.init has run to its end
    currentCategory, \* App.currentCategory
    selectedIndex, \* App.selectedIndex
    channelCards, \* App.channelCards: the data-channel-id of each card
    favoriteCards \* the favorite cards rendered: the data-channel-id of each

\* FavoritesManager's storage, VideoPlayer and App.
appVars == <<storage, storageFault, currentChannel, isIframeMode, player, search,
             started, currentCategory, selectedIndex, channelCards, favoriteCards>>

vars == <<channels, loaded, pc, outcome, returned, late, fetchCount,
          assignCount, firstResult, completed, playlist, parsed, query, appVars>>

-----------------------------------------------------------------------------
(* Bounds of the model *)

\* Longest playlist, in lines, the parser specification enumerates.
MaxLines == 3
\* Most metadata+URL pairs in a playlist made of pairs only.
MaxPairs == 2
\* Number of loadChannels() calls issued in one behaviour.
MaxCalls == 3
\* Longest favorites list localStorage holds when the page opens.
MaxFavorites == 2
\* Longest catalog the query specification enumerates.
MaxChannels == 3

-----------------------------------------------------------------------------
(* Strings *)

\* The characters of the model in code-unit order; Code gives their rank.
CharOrder ==
    <<"\t", "\n", "\r", " ", "\"", "#", ",", "-", "1", "3", ":", "=",
      "A", "B", "C", "E", "F", "I", "K", "M", "N", "O", "T", "U", "X", "Z",
      "a", "b", "c", "d", "e", "g", "h", "i", "l", "m", "n", "o", "p", "r",
      "s", "t", "u", "v", "w", "x">>

Code(c) == CHOOSE k \in 1..Len(CharOrder) : CharOrder[k] = c

\* What String.prototype.trim removes.
WhiteSpace == {" ", "\t", "\n", "\r"}

\* String comparison of Array.prototype.sort's default order: code units,
\* a proper prefix first.
RECURSIVE StrLess(_, _)
StrLess(a, b) ==
    IF b = <<>> THEN FALSE
    ELSE IF a = <<>> THEN TRUE
    ELSE IF Head(a) = Head(b) THEN StrLess(Tail(a), Tail(b))
    ELSE Code(Head(a)) < Code(Head(b))

\* content.split('\n'): the pieces between consecutive line breaks.
Split(text) ==
    LET breaks == {i \in 1..Len(text) : text[i] = "\n"}
        \* the k-th line break, with 0 before the text and Len + 1 after it
        Break(k) == IF k = 0 THEN 0
                    ELSE IF k > Cardinality(breaks) THEN Len(text) + 1
                    ELSE CHOOSE i \in breaks :
                            Cardinality({j \in breaks : j < i}) = k - 1
    IN  [k \in 1..(Cardinality(breaks) + 1) |->
            SubSeq(text, Break(k - 1) + 1, Break(k) - 1)]

\* line.trim()
Trim(s) ==
    LET keep == {i \in 1..Len(s) : s[i] \notin WhiteSpace}
    IN  IF keep = {} THEN <<>>
        ELSE SubSeq(s, CHOOSE i \in keep : \A j \in keep : i <= j,
                       CHOOSE i \in keep : \A j \in keep : j <= i)

\* line.startsWith(prefix)
StartsWith(s, prefix) ==
    /\ Len(s) >= Len(prefix)
    /\ SubSeq(s, 1, Len(prefix)) = prefix

\* line.lastIndexOf(ch), counted from 1; 0 stands for the code's -1.
LastIndexOf(s, ch) ==
    LET at == {i \in 1..Len(s) : s[i] = ch}
    IN  IF at = {} THEN 0 ELSE CHOOSE i \in at : \A j \in at : j <= i

\* line.substring(from), with from counted from 1.
Substring(s, from) == SubSeq(s, from, Len(s))

\* The closing quote of a value that starts at q: the first '"' at or after q
\* (0 when the line has none).
ClosingQuote(line, q) ==
    LET at == {e \in q..Len(line) : line[e] = "\""}
    IN  IF at = {} THEN 0 ELSE CHOOSE e \in at : \A j \in at : e <= j

\* Whether /key="([^"]+)"/ matches at position p: the literal key=" and then
\* one or more characters other than '"' up to a '"'.
MatchesAt(line, key, p) ==
    /\ p + Len(key) - 1 <= Len(line)
    /\ line[p] = key[1]
    /\ SubSeq(line, p, p + Len(key) - 1) = key
    /\ ClosingQuote(line, p + Len(key)) > p + Len(key)

\* Match with the rightmost match taken instead of the leftmost.
MatchLast(line, key) ==
    LET at == {p \in 1..Len(line) : MatchesAt(line, key, p)}
    IN  IF at = {} THEN [matched |-> FALSE, group |-> <<>>]
        ELSE LET p == CHOOSE x \in at : \A y \in at : y <= x
                 q == p + Len(key)
             IN  [matched |-> TRUE,
                  group |-> SubSeq(line, q, ClosingQuote(line, q) - 1)]

\* line.match(/key="([^"]+)"/): the leftmost match; group is the captured value.
Match(line, key) ==
    LET at == {p \in 1..Len(line) : MatchesAt(line, key, p)}
    IN  IF at = {} THEN [matched |-> FALSE, group |-> <<>>]
        ELSE LET p == CHOOSE x \in at : \A y \in at : x <= y
                 q == p + Len(key)
             IN  [matched |-> TRUE,
                  group |-> SubSeq(line, q, ClosingQuote(line, q) - 1)]

-----------------------------------------------------------------------------
(* Literals of js/channels.js *)

EXTINF == <<"#", "E", "X", "T", "I", "N", "F", ":">>
TvgId == <<"t", "v", "g", "-", "i", "d", "=", "\"">>
TvgName == <<"t", "v", "g", "-", "n", "a", "m", "e", "=", "\"">>
TvgLogo == <<"t", "v", "g", "-", "l", "o", "g", "o", "=", "\"">>
GroupTitle == <<"g", "r", "o", "u", "p", "-", "t", "i", "t", "l", "e", "=", "\"">>
All == <<"a", "l", "l">>

-----------------------------------------------------------------------------
(* Channel objects *)

\* const channel = {}
NoProps == [p \in {} |-> <<>>]

Has(ch, prop) == prop \in DOMAIN ch

\* channel.prop = value
SetProp(ch, prop, value) == [p \in DOMAIN ch \cup {prop} |->
                                IF p = prop THEN value ELSE ch[p]]

\* The truth value of ch.prop for a string property: set and not "".
Truthy(ch, prop) == Has(ch, prop) /\ ch[prop] # <<>>

\* No query was made in the last step.
NoQuery == [op |-> "none"]

\* null, where a channel object is expected.
Null == [null |-> TRUE]
\* null, where a string is expected: localStorage.getItem of a key that was
\* never set, urlParams.get of a parameter the URL does not have.
NullItem == <<"null">>

\* The page before App.init has continued past loadChannels(): nothing is
\* stored, played, selected or rendered.
AppIdle ==
    /\ storage = NullItem
    /\ storageFault = {}
    /\ currentChannel = Null
    /\ isIframeMode = FALSE
    /\ player = "null"
    /\ search = NullItem
    /\ started = FALSE
    /\ currentCategory = <<"a", "l", "l">>
    /\ selectedIndex = -1
    /\ channelCards = <<>>
    /\ favoriteCards = <<>>

-----------------------------------------------------------------------------
(* ChannelManager.parseM3U8 *)

\* content.split('\n').map(line => line.trim()).filter(line => line)
Lines(content) ==
    LET raw == Split(content)
        trimmed == [k \in 1..Len(raw) |-> Trim(raw[k])]
    IN  SelectSeq(trimmed, LAMBDA l : l # <<>>)

\* if (xMatch) channel.prop = xMatch[1]
WithMatch(ch, prop, line, key) ==
    LET m == Match(line, key)
    IN  IF m.matched THEN SetProp(ch, prop, m.group) ELSE ch

\* Fallback: the name from the end of the line after the last comma.
WithNameFallback(ch, line) ==
    IF ~Truthy(ch, "name")
    THEN LET commaIndex == LastIndexOf(line, ",")
         IN  IF commaIndex # 0
             THEN SetProp(ch, "name", Trim(Substring(line, commaIndex + 1)))
             ELSE ch
    ELSE ch

\* HasUrlLine without the test for a leading '#'.
HasNextLine(lines, i) == i + 1 <= Len(lines)

\* Whether the line after lines[i] is taken as the stream URL.
HasUrlLine(lines, i) ==
    i + 1 <= Len(lines) /\ ~StartsWith(lines[i + 1], <<"#">>)

WithStream(ch, lines, i) ==
    IF HasUrlLine(lines, i) THEN SetProp(ch, "stream", lines[i + 1]) ELSE ch

\* The channel object built for the #EXTINF: line lines[i].
BuildChannel(lines, i) ==
    LET line == lines[i]
        c1 == WithMatch(NoProps, "id", line, TvgId)
        c2 == WithMatch(c1, "name", line, TvgName)
        c3 == WithMatch(c2, "logo", line, TvgLogo)
        c4 == WithMatch(c3, "category", line, GroupTitle)
        c5 == WithNameFallback(c4, line)
    IN  WithStream(c5, lines, i)

\* Required without the test of channel.stream.
RequiredWithoutStream(ch) == Truthy(ch, "id") /\ Truthy(ch, "name")

\* Required without the test of channel.id.
RequiredWithoutId(ch) == Truthy(ch, "name") /\ Truthy(ch, "stream")

\* Only add if we have required fields.
Required(ch) == Truthy(ch, "id") /\ Truthy(ch, "name") /\ Truthy(ch, "stream")

\* The for loop from index i on. Each pushed channel is kept with the index
\* of the #EXTINF: line it was built from (at), which the code does not keep.
RECURSIVE ParseLoop(_, _, _)
ParseLoop(lines, i, acc) ==
    IF i > Len(lines) THEN acc
    ELSE IF StartsWith(lines[i], EXTINF)
         THEN LET ch == BuildChannel(lines, i)
                  next == IF HasUrlLine(lines, i) THEN i + 2 ELSE i + 1
              IN  ParseLoop(lines, next,
                            IF Required(ch)
                            THEN Append(acc, [at |-> i, channel |-> ch])
                            ELSE acc)
         ELSE ParseLoop(lines, i + 1, acc)

ParseTrace(content) == ParseLoop(Lines(content), 1, <<>>)

\* Scanned with the cursor advanced by one line only after every line.
ScannedEveryLine(lines, i) == i..Len(lines)

\* The values the loop's cursor i takes from i on at the top of the loop
\* body: the inner i++ skips the line taken as a stream URL.
RECURSIVE Scanned(_, _)
Scanned(lines, i) ==
    IF i > Len(lines) THEN {}
    ELSE {i} \cup Scanned(lines,
                          IF StartsWith(lines[i], EXTINF) /\ HasUrlLine(lines, i)
                          THEN i + 2 ELSE i + 1)

parseM3U8(content) ==
    LET trace == ParseTrace(content)
    IN  [k \in 1..Len(trace) |-> trace[k].channel]

-----------------------------------------------------------------------------
(* Playlist documents *)

\* A playlist is written line by line. A line is one of
\*   [kind |-> "extinf", attrs |-> a, pad |-> w]  an #EXTINF: line carrying the
\*       attributes in DOMAIN a: id, id2 (a second tvg-id), name, logo, group,
\*       and label (the text after the final comma, written with w around it);
\*   [kind |-> "url", text |-> t, pad |-> w]      t with w before and after it;
\*   [kind |-> "comment", text |-> t]             a line that starts with '#';
\*   [kind |-> "blank", pad |-> w]                white space only.
Attr(a, prop, key) ==
    IF prop \in DOMAIN a THEN <<" ">> \o key \o a[prop] \o <<"\"">> ELSE <<>>

FormatLine(d) ==
    CASE d.kind = "extinf" ->
            EXTINF \o <<"-", "1">>
            \o Attr(d.attrs, "id", TvgId) \o Attr(d.attrs, "id2", TvgId)
            \o Attr(d.attrs, "name", TvgName) \o Attr(d.attrs, "logo", TvgLogo)
            \o Attr(d.attrs, "group", GroupTitle)
            \o (IF "label" \in DOMAIN d.attrs
                THEN <<",">> \o d.pad \o d.attrs.label \o d.pad ELSE <<>>)
      [] d.kind = "url" -> d.pad \o d.text \o d.pad
      [] d.kind = "comment" -> d.text
      [] d.kind = "blank" -> d.pad

\* The text of the document: its lines joined by line breaks.
RECURSIVE Text(_)
Text(doc) ==
    IF doc = <<>> THEN <<>>
    ELSE IF Len(doc) = 1 THEN FormatLine(doc[1])
    ELSE FormatLine(doc[1]) \o <<"\n">> \o Text(Tail(doc))

News == <<"N", "e", "w", "s">>
NewsPrefix == <<"N", "e", "w">>
Kids == <<"K", "i", "d", "s">>

Extinf(a, w) == [kind |-> "extinf", attrs |-> a, pad |-> w]

\* Every attribute and the label: the README's example entry.
FullEntry ==
    Extinf([id |-> <<"a">>, name |-> <<"A">>, logo |-> <<"l">>,
            group |-> News, label |-> <<"A">>], <<>>)
\* No tvg-name: the name comes from the label.
LabelEntry ==
    Extinf([id |-> <<"b">>, group |-> Kids, label |-> <<"B", " ", "b">>], <<" ">>)
\* No tvg-id, everything else present.
NoIdEntry ==
    Extinf([name |-> <<"C">>, logo |-> <<"l">>, group |-> News, label |-> <<"C">>], <<>>)
\* tvg-id only: no tvg-name and no comma on the line.
NoNameEntry == Extinf([id |-> <<"c">>], <<>>)
\* No group-title; tvg-id twice, the first the same as FullEntry's.
NoGroupEntry == Extinf([id |-> <<"a">>, id2 |-> <<"b">>, name |-> <<"Z">>], <<>>)
\* tvg-id="" (an empty value).
EmptyIdEntry == Extinf([id |-> <<>>, name |-> <<"E">>, label |-> <<"E">>], <<>>)
\* The line ends with its comma: an empty label and no tvg-name.
EmptyLabelEntry == Extinf([id |-> <<"d">>, label |-> <<>>], <<" ">>)

UrlLine == [kind |-> "url", text |-> <<"u">>, pad |-> <<>>]
PaddedUrlLine == [kind |-> "url", text |-> <<"v", ":", "x">>, pad |-> <<" ", "\t">>]
CommentLine == [kind |-> "comment", text |-> <<"#", "E", "X", "T", "M", "3", "U">>]
SpaceLine == [kind |-> "blank", pad |-> <<" ", "\r">>]

LineChoices ==
    {FullEntry, LabelEntry, NoIdEntry, NoNameEntry, NoGroupEntry, EmptyIdEntry,
     EmptyLabelEntry, UrlLine, PaddedUrlLine, CommentLine, SpaceLine}

\* An #EXTINF: line with a tvg-id and a name, directly followed by a URL line.
PairChoices ==
    {<<e, u>> : e \in {FullEntry, LabelEntry, NoGroupEntry},
                u \in {UrlLine, PaddedUrlLine}}

\* The lines of a sequence of pairs, in order.
RECURSIVE Flatten(_)
Flatten(pairs) ==
    IF pairs = <<>> THEN <<>> ELSE Head(pairs) \o Flatten(Tail(pairs))

\* The documents of at most MaxLines lines.
Docs == UNION {[1..n -> LineChoices] : n \in 0..MaxLines}

\* The documents made of at most MaxPairs pairs.
PairDocs == {Flatten(ps) : ps \in UNION {[1..n -> PairChoices] : n \in 0..MaxPairs}}

-----------------------------------------------------------------------------
(* The parser applied to a document *)

InitParse ==
    /\ playlist \in Docs \cup PairDocs
    /\ parsed = [done |-> FALSE, trace |-> <<>>, scanned |-> {}]
    /\ channels = <<>>
    /\ loaded = FALSE
    /\ pc = <<>>
    /\ outcome = <<>>
    /\ returned = <<>>
    /\ late = <<>>
    /\ fetchCount = 0
    /\ assignCount = 0
    /\ firstResult = <<>>
    /\ completed = 0
    /\ query = NoQuery
    /\ AppIdle

\* parseM3U8(content) is called on the document's text.
Parse ==
    /\ ~parsed.done
    /\ parsed' = [done |-> TRUE, trace |-> ParseTrace(Text(playlist)),
                  scanned |-> Scanned(Lines(Text(playlist)), 1)]
    /\ UNCHANGED <<channels, loaded, pc, outcome, returned, late, fetchCount,
                   assignCount, firstResult, completed, playlist, query>>
    /\ UNCHANGED appVars

NextParse == Parse

SpecParse == InitParse /\ [][NextParse]_vars

-----------------------------------------------------------------------------
(* ChannelManager's queries *)

\* The value of a property the object does not have, where a string is read.
UndefinedValue == <<"undefined">>
\* The result of Array.prototype.find when no element matches.
Undefined == [undefined |-> TRUE]

\* ch => ch.category
CategoryOf(ch) == IF Has(ch, "category") THEN ch.category ELSE UndefinedValue

\* [...new Set(values)]: the distinct values in order of first occurrence.
Unique(values) ==
    LET first == {i \in 1..Len(values) : \A j \in 1..(i - 1) : values[j] # values[i]}
        Nth(k) == CHOOSE i \in first : Cardinality({j \in first : j < i}) = k - 1
    IN  [k \in 1..Cardinality(first) |-> values[Nth(k)]]

\* The order of Array.prototype.sort without a comparator: undefined last,
\* the rest by their strings.
SortsBefore(a, b) ==
    /\ a # UndefinedValue
    /\ b = UndefinedValue \/ StrLess(a, b)

\* values.sort() for distinct values: each value at the rank its order gives it.
Sort(values) ==
    LET Rank(i) == 1 + Cardinality({j \in 1..Len(values) :
                                       SortsBefore(values[j], values[i])})
    IN  [k \in 1..Len(values) |->
            values[CHOOSE i \in 1..Len(values) : Rank(i) = k]]

getChannels == channels

getCategories ==
    Sort(Unique([k \in 1..Len(channels) |-> CategoryOf(channels[k])]))

\* getChannelsByCategory without the special case for 'all'.
getChannelsByCategoryNoAll(category) ==
    SelectSeq(channels, LAMBDA ch : Has(ch, "category") /\ ch.category = category)

getChannelsByCategory(category) ==
    IF category = All THEN channels
    ELSE SelectSeq(channels,
                   LAMBDA ch : Has(ch, "category") /\ ch.category = category)

\* getChannelById with the last match returned instead of the first.
getChannelByIdLast(id) ==
    LET at == {i \in 1..Len(channels) :
                  Has(channels[i], "id") /\ channels[i].id = id}
    IN  IF at = {} THEN Undefined
        ELSE channels[CHOOSE i \in at : \A j \in at : j <= i]

getChannelById(id) ==
    LET at == {i \in 1..Len(channels) :
                  Has(channels[i], "id") /\ channels[i].id = id}
    IN  IF at = {} THEN Undefined
        ELSE channels[CHOOSE i \in at : \A j \in at : i <= j]

\* ch.stream && ch.stream.length > 0
getActiveChannels == SelectSeq(channels, LAMBDA ch : Truthy(ch, "stream"))

getChannelCount == Len(channels)

getActiveChannelCount == Len(getActiveChannels)

\* The arguments the model passes to the queries.
CategoryArgs == {All, News, NewsPrefix, Kids}
IdArgs == {<<"a">>, <<"x">>}

NotLoading ==
    UNCHANGED <<channels, loaded, pc, outcome, returned, late, fetchCount,
                assignCount, firstResult, completed, playlist, parsed, appVars>>

GetChannels ==
    /\ query' = [op |-> "getChannels", result |-> getChannels]
    /\ NotLoading

GetCategories ==
    /\ query' = [op |-> "getCategories", result |-> getCategories]
    /\ NotLoading

GetChannelsByCategory ==
    /\ \E category \in CategoryArgs :
          query' = [op |-> "getChannelsByCategory", arg |-> category,
                    result |-> getChannelsByCategory(category)]
    /\ NotLoading

GetChannelById ==
    /\ \E id \in IdArgs :
          query' = [op |-> "getChannelById", arg |-> id,
                    result |-> getChannelById(id)]
    /\ NotLoading

GetActiveChannels ==
    /\ query' = [op |-> "getActiveChannels", result |-> getActiveChannels]
    /\ NotLoading

GetChannelCount ==
    /\ query' = [op |-> "getChannelCount", result |-> getChannelCount]
    /\ NotLoading

GetActiveChannelCount ==
    /\ query' = [op |-> "getActiveChannelCount", result |-> getActiveChannelCount]
    /\ NotLoading

-----------------------------------------------------------------------------
(* ChannelManager.loadChannels *)

Calls == 1..MaxCalls

\* The playlists the server may answer with.
EmptyPlaylist == <<>>
ScenarioPlaylist == <<FullEntry, UrlLine, LabelEntry>>
MixedPlaylist ==
    <<CommentLine, LabelEntry, PaddedUrlLine, SpaceLine, FullEntry, UrlLine,
      NoGroupEntry, UrlLine>>
SamplePlaylists == {EmptyPlaylist, ScenarioPlaylist, MixedPlaylist}

\* this.parseM3U8(content) for the text of each of them.
SampleResult == [doc \in SamplePlaylists |-> parseM3U8(Text(doc))]

Init ==
    /\ channels = <<>>
    /\ loaded = FALSE
    /\ pc = [c \in Calls |-> "idle"]
    /\ outcome = [c \in Calls |-> "none"]
    /\ returned = [c \in Calls |-> <<>>]
    /\ late = [c \in Calls |-> FALSE]
    /\ fetchCount = 0
    /\ assignCount = 0
    /\ firstResult = <<>>
    /\ completed = 0
    /\ playlist = <<>>
    /\ parsed = [done |-> FALSE, trace |-> <<>>, scanned |-> {}]
    /\ query = NoQuery
    /\ AppIdle

\* Calls are numbered in the order they are issued.
IsNextCall(c) == pc[c] = "idle" /\ \A b \in 1..(c - 1) : pc[b] # "idle"

\* The call resolves with this.channels.
Resolve(c, how) ==
    /\ query' = NoQuery
    /\ pc' = [pc EXCEPT ![c] = "done"]
    /\ outcome' = [outcome EXCEPT ![c] = how]
    /\ returned' = [returned EXCEPT ![c] = channels']
    /\ completed' = completed + 1
    /\ firstResult' = IF completed = 0 THEN channels' ELSE firstResult

\* if (this.loaded) return this.channels;
LoadCached(c) ==
    /\ IsNextCall(c)
    /\ loaded
    /\ late' = [late EXCEPT ![c] = completed > 0]
    /\ UNCHANGED <<channels, loaded, fetchCount, assignCount, playlist, parsed,
                   appVars>>
    /\ Resolve(c, "cached")

\* LoadStart with the loaded flag set before the fetch is awaited.
LoadStartEager(c) ==
    /\ IsNextCall(c)
    /\ ~loaded
    /\ loaded' = TRUE
    /\ late' = [late EXCEPT ![c] = completed > 0]
    /\ pc' = [pc EXCEPT ![c] = "fetching"]
    /\ fetchCount' = fetchCount + 1
    /\ query' = NoQuery
    /\ UNCHANGED <<channels, outcome, returned, assignCount, firstResult,
                   completed, playlist, parsed, appVars>>

\* The call passes the guard and awaits fetch('playlist.m3u8').
LoadStart(c) ==
    /\ IsNextCall(c)
    /\ ~loaded
    /\ late' = [late EXCEPT ![c] = completed > 0]
    /\ pc' = [pc EXCEPT ![c] = "fetching"]
    /\ fetchCount' = fetchCount + 1
    /\ query' = NoQuery
    /\ UNCHANGED <<channels, loaded, outcome, returned, assignCount, firstResult,
                   completed, playlist, parsed, appVars>>

\* Catch with the error thrown again: nothing is stored and the call rejects.
CatchRethrow(c, why) ==
    /\ pc' = [pc EXCEPT ![c] = "rejected"]
    /\ outcome' = [outcome EXCEPT ![c] = why]
    /\ query' = NoQuery
    /\ UNCHANGED <<channels, loaded, returned, late, fetchCount, assignCount,
                   firstResult, completed, playlist, parsed, appVars>>

\* The catch block and the return after it.
Catch(c, why) ==
    /\ channels' = <<>>
    /\ loaded' = TRUE
    /\ assignCount' = assignCount + 1
    /\ Resolve(c, why)
    /\ UNCHANGED <<late, fetchCount, playlist, parsed, appVars>>

\* The fetch promise rejects.
FetchRejected(c) ==
    /\ pc[c] = "fetching"
    /\ Catch(c, "rejected")

\* The fetch resolves with a response whose ok is false: the try block throws.
FetchNotOk(c) ==
    /\ pc[c] = "fetching"
    /\ Catch(c, "notok")

\* The fetch resolves with an ok response; the call awaits response.text().
FetchOk(c) ==
    /\ pc[c] = "fetching"
    /\ pc' = [pc EXCEPT ![c] = "reading"]
    /\ query' = NoQuery
    /\ UNCHANGED <<channels, loaded, outcome, returned, late, fetchCount,
                   assignCount, firstResult, completed, playlist, parsed, appVars>>

\* Reading the body fails.
BodyFailed(c) ==
    /\ pc[c] = "reading"
    /\ Catch(c, "bodyfailed")

\* The body arrives: the text is parsed and stored, and the call returns.
BodyRead(c) ==
    /\ pc[c] = "reading"
    /\ \E doc \in SamplePlaylists : channels' = SampleResult[doc]
    /\ loaded' = TRUE
    /\ assignCount' = assignCount + 1
    /\ Resolve(c, "parsed")
    /\ UNCHANGED <<late, fetchCount, playlist, parsed, appVars>>

Next ==
    \/ \E c \in Calls :
          \/ LoadCached(c)
          \/ LoadStart(c)
          \/ FetchRejected(c)
          \/ FetchNotOk(c)
          \/ FetchOk(c)
          \/ BodyFailed(c)
          \/ BodyRead(c)
    \/ GetChannels
    \/ GetCategories
    \/ GetChannelsByCategory
    \/ GetChannelById
    \/ GetActiveChannels
    \/ GetChannelCount
    \/ GetActiveChannelCount

Spec == Init /\ [][Next]_vars

-----------------------------------------------------------------------------
(* The queries applied to a catalog *)

\* Channel objects as the Channel type allows them: id and name, with or
\* without category, logo, stream and embed.
StreamOnly ==
    [id |-> <<"a">>, name |-> <<"A">>, category |-> News, stream |-> <<"u">>]
WithLogo ==
    [id |-> <<"b">>, name |-> <<"B">>, category |-> Kids, logo |-> <<"l">>,
     stream |-> <<"v">>]
EmbedOnly ==
    [id |-> <<"c">>, name |-> <<"C">>, category |-> News, embed |-> <<"e">>]
EmptyStream ==
    [id |-> <<"d">>, name |-> <<"D">>, category |-> All, stream |-> <<>>]
StreamAndEmbed ==
    [id |-> <<"a">>, name |-> <<"Z">>, category |-> NewsPrefix,
     stream |-> <<"u">>, embed |-> <<"e">>]
NoCategory == [id |-> <<"e">>, name |-> <<"E">>, stream |-> <<"w">>]
Placeholder == [id |-> <<"b">>, name |-> <<"F">>, category |-> Kids]

SampleChannels ==
    {StreamOnly, WithLogo, EmbedOnly, EmptyStream, StreamAndEmbed, NoCategory,
     Placeholder}

\* The catalogs of at most MaxChannels channels.
Catalogs == UNION {[1..n -> SampleChannels] : n \in 0..MaxChannels}

InitQuery ==
    /\ channels \in Catalogs
    /\ loaded = TRUE
    /\ pc = <<>>
    /\ outcome = <<>>
    /\ returned = <<>>
    /\ late = <<>>
    /\ fetchCount = 0
    /\ assignCount = 0
    /\ firstResult = <<>>
    /\ completed = 0
    /\ playlist = <<>>
    /\ parsed = [done |-> FALSE, trace |-> <<>>, scanned |-> {}]
    /\ query = NoQuery
    /\ AppIdle

NextQuery ==
    \/ GetChannels
    \/ GetCategories
    \/ GetChannelsByCategory
    \/ GetChannelById
    \/ GetActiveChannels
    \/ GetChannelCount
    \/ GetActiveChannelCount

SpecQuery == InitQuery /\ [][NextQuery]_vars

-----------------------------------------------------------------------------
(* FavoritesManager (js/favorites.js) *)

\* "id1","id2",...: the elements of JSON.stringify's array text. The ids of
\* the model hold no '"' and no '\', so none is escaped.
RECURSIVE JoinQuoted(_)
JoinQuoted(ids) ==
    IF ids = <<>> THEN <<>>
    ELSE <<"\"">> \o Head(ids) \o <<"\"">>
         \o (IF Len(ids) = 1 THEN <<>> ELSE <<",">> \o JoinQuoted(Tail(ids)))

\* JSON.stringify(favorites) for an array of strings.
JsonStringify(ids) == <<"[">> \o JoinQuoted(ids) \o <<"]">>

\* JSON.parse(text) for the texts of the model: ok with the array of strings
\* the text denotes, or not ok where JSON.parse throws a SyntaxError.
JsonParse(text) ==
    IF Len(text) < 2 \/ text[1] # "[" \/ text[Len(text)] # "]"
    THEN [ok |-> FALSE, value |-> <<>>]
    ELSE LET inner == SubSeq(text, 2, Len(text) - 1)
             quotes == {i \in 1..Len(inner) : inner[i] = "\""}
             n == Cardinality(quotes)
             Q(k) == CHOOSE i \in quotes : Cardinality({j \in quotes : j < i}) = k - 1
             wellFormed ==
                 /\ n % 2 = 0
                 /\ n = 0 => inner = <<>>
                 /\ n > 0 => Q(1) = 1 /\ Q(n) = Len(inner)
                 /\ \A k \in 1..((n \div 2) - 1) :
                       Q(2 * k + 1) = Q(2 * k) + 2 /\ inner[Q(2 * k) + 1] = ","
         IN  IF wellFormed
             THEN [ok |-> TRUE,
                   value |-> [k \in 1..(n \div 2) |->
                                SubSeq(inner, Q(2 * k - 1) + 1, Q(2 * k) - 1)]]
             ELSE [ok |-> FALSE, value |-> <<>>]

\* favorites.includes(channelId)
Includes(favorites, channelId) ==
    \E k \in 1..Len(favorites) : favorites[k] = channelId

\* favorites.indexOf(channelId), counted from 1; 0 stands for the code's -1.
IndexOf(favorites, channelId) ==
    LET at == {k \in 1..Len(favorites) : favorites[k] = channelId}
    IN  IF at = {} THEN 0 ELSE CHOOSE k \in at : \A j \in at : k <= j

\* favorites.splice(index, 1)
Splice(favorites, index) ==
    [k \in 1..(Len(favorites) - 1) |->
        IF k < index THEN favorites[k] ELSE favorites[k + 1]]

\* getFavorites() when the stored item is item: [] when getItem or
\* JSON.parse throws, and when nothing or the empty string is stored.
ReadFavorites(item) ==
    IF "read" \in storageFault THEN <<>>
    ELSE IF item = NullItem \/ item = <<>> THEN <<>>
    ELSE LET p == JsonParse(item)
         IN  IF p.ok THEN p.value ELSE <<>>

getFavorites == ReadFavorites(storage)

\* saveFavorites(favorites): the item after the call; an error of setItem is
\* caught and leaves the item as it was.
saveFavorites(favorites) ==
    IF "write" \in storageFault THEN storage ELSE JsonStringify(favorites)

\* isFavorite(channelId)
isFavorite(channelId) == Includes(getFavorites, channelId)

\* addFavorite with the id pushed whether or not the list includes it.
addFavoriteAlways(channelId) ==
    [storage |-> saveFavorites(Append(getFavorites, channelId)), result |-> TRUE]

\* addFavorite(channelId): the item after the call and the value returned.
addFavorite(channelId) ==
    LET favorites == getFavorites
    IN  IF ~Includes(favorites, channelId)
        THEN [storage |-> saveFavorites(Append(favorites, channelId)),
              result |-> TRUE]
        ELSE [storage |-> storage, result |-> FALSE]

\* removeFavorite(channelId): the item after the call and the value returned.
removeFavorite(channelId) ==
    LET favorites == getFavorites
        index == IndexOf(favorites, channelId)
    IN  IF index > 0
        THEN [storage |-> saveFavorites(Splice(favorites, index)), result |-> TRUE]
        ELSE [storage |-> storage, result |-> FALSE]

\* toggleFavorite(channelId): the item after the call and the value returned.
toggleFavorite(channelId) ==
    IF isFavorite(channelId)
    THEN LET removed == removeFavorite(channelId)
         IN  [storage |-> removed.storage, result |-> FALSE]
    ELSE LET added == addFavorite(channelId)
         IN  [storage |-> added.storage, result |-> TRUE]

\* getFavoriteChannels without the filter.
getFavoriteChannelsUnfiltered ==
    LET favoriteIds == getFavorites
    IN  [k \in 1..Len(favoriteIds) |-> getChannelById(favoriteIds[k])]

\* favoriteIds.map(id => ChannelManager.getChannelById(id))
\*            .filter(channel => channel !== undefined)
FavoriteChannels(favoriteIds) ==
    SelectSeq([k \in 1..Len(favoriteIds) |-> getChannelById(favoriteIds[k])],
              LAMBDA channel : channel # Undefined)

\* getFavoriteChannels()
getFavoriteChannels == FavoriteChannels(getFavorites)

\* clearFavorites(): the item after the call.
clearFavorites == saveFavorites(<<>>)

\* The ids the model passes to FavoritesManager; "x" is in no catalog.
FavoriteIds == {<<"a">>, <<"b">>, <<"x">>}

\* What a FavoritesManager call leaves alone.
OnlyStorage ==
    UNCHANGED <<channels, loaded, pc, outcome, returned, late, fetchCount,
                assignCount, firstResult, completed, playlist, parsed,
                storageFault, currentChannel, isIframeMode, player, search,
                started, currentCategory, selectedIndex, channelCards,
                favoriteCards>>

GetFavorites ==
    /\ query' = [op |-> "getFavorites", before |-> storage, result |-> getFavorites]
    /\ UNCHANGED storage
    /\ OnlyStorage

AddFavorite ==
    /\ \E id \in FavoriteIds :
          /\ storage' = addFavorite(id).storage
          /\ query' = [op |-> "addFavorite", arg |-> id, before |-> storage,
                       read |-> getFavorites, result |-> addFavorite(id).result]
    /\ OnlyStorage

RemoveFavorite ==
    /\ \E id \in FavoriteIds :
          /\ storage' = removeFavorite(id).storage
          /\ query' = [op |-> "removeFavorite", arg |-> id, before |-> storage,
                       read |-> getFavorites, result |-> removeFavorite(id).result]
    /\ OnlyStorage

ToggleFavorite ==
    /\ \E id \in FavoriteIds :
          /\ storage' = toggleFavorite(id).storage
          /\ query' = [op |-> "toggleFavorite", arg |-> id, before |-> storage,
                       read |-> getFavorites, result |-> toggleFavorite(id).result]
    /\ OnlyStorage

IsFavorite ==
    /\ \E id \in FavoriteIds :
          query' = [op |-> "isFavorite", arg |-> id, before |-> storage,
                    result |-> isFavorite(id)]
    /\ UNCHANGED storage
    /\ OnlyStorage

GetFavoriteChannels ==
    /\ query' = [op |-> "getFavoriteChannels", before |-> storage,
                 read |-> getFavorites, result |-> getFavoriteChannels]
    /\ UNCHANGED storage
    /\ OnlyStorage

ClearFavorites ==
    /\ storage' = clearFavorites
    /\ query' = [op |-> "clearFavorites", before |-> storage, result |-> Undefined]
    /\ OnlyStorage

\* The favorites lists without a duplicate, of at most MaxFavorites ids.
InitialFavorites ==
    {f \in UNION {[1..n -> FavoriteIds] : n \in 0..MaxFavorites} :
        \A j, k \in 1..Len(f) : j # k => f[j] # f[k]}

\* What localStorage may hold when the page opens: nothing, the empty string,
\* a text that is not JSON, or a list the FavoritesManager saved.
InitialStorage ==
    {NullItem, <<>>, <<"x">>} \cup {JsonStringify(f) : f \in InitialFavorites}

\* The catalogs the favorites are resolved in: none loaded, the one the
\* loader makes of MixedPlaylist (ids b, a, a), and one of the Channel type.
FavoriteCatalogs ==
    {<<>>, SampleResult[MixedPlaylist], <<WithLogo, EmbedOnly, StreamOnly>>}

InitFav ==
    /\ channels \in FavoriteCatalogs
    /\ loaded = TRUE
    /\ pc = <<>>
    /\ outcome = <<>>
    /\ returned = <<>>
    /\ late = <<>>
    /\ fetchCount = 0
    /\ assignCount = 0
    /\ firstResult = <<>>
    /\ completed = 0
    /\ playlist = <<>>
    /\ parsed = [done |-> FALSE, trace |-> <<>>, scanned |-> {}]
    /\ query = NoQuery
    /\ storage \in InitialStorage
    /\ storageFault \in SUBSET {"read", "write"}
    /\ currentChannel = Null
    /\ isIframeMode = FALSE
    /\ player = "null"
    /\ search = NullItem
    /\ started = FALSE
    /\ currentCategory = All
    /\ selectedIndex = -1
    /\ channelCards = <<>>
    /\ favoriteCards = <<>>

NextFav ==
    \/ GetFavorites
    \/ AddFavorite
    \/ RemoveFavorite
    \/ ToggleFavorite
    \/ IsFavorite
    \/ GetFavoriteChannels
    \/ ClearFavorites

SpecFav == InitFav /\ [][NextFav]_vars

-----------------------------------------------------------------------------
(* VideoPlayer.loadChannel (js/player.js) *)

\* !channel.stream && !channel.embed
NothingToPlay(channel) == ~Truthy(channel, "stream") /\ ~Truthy(channel, "embed")

\* The player's fields as they are.
SamePlayer ==
    [currentChannel |-> currentChannel, isIframeMode |-> isIframeMode,
     player |-> player]

\* loadChannel with the stream tried before the embed.
loadChannelStreamFirst(channel) ==
    IF channel = Null \/ channel = Undefined \/ NothingToPlay(channel)
    THEN SamePlayer
    ELSE IF Truthy(channel, "stream")
         THEN [currentChannel |-> channel, isIframeMode |-> FALSE, player |-> "jw"]
         ELSE [currentChannel |-> channel, isIframeMode |-> TRUE, player |-> "null"]

\* loadChannel(channel): the player's fields after the call. An embed goes
\* to the iframe (switchToIframeMode removes the JW Player instance), a
\* stream to a JW Player instance set up anew (switchToVideoMode).
loadChannel(channel) ==
    IF channel = Null \/ channel = Undefined \/ NothingToPlay(channel)
    THEN SamePlayer
    ELSE IF Truthy(channel, "embed")
         THEN [currentChannel |-> channel, isIframeMode |-> TRUE, player |-> "null"]
         ELSE [currentChannel |-> channel, isIframeMode |-> FALSE, player |-> "jw"]

-----------------------------------------------------------------------------
(* App (js/app.js) *)

\* The default channel of autoPlayFirstChannel.
DefaultId == <<"d", "u", "n", "y", "a", "-", "n", "e", "w", "s">>

\* renderChannels(): the data-channel-id of the cards made for the channels
\* of the category, in order.
renderChannels(category) ==
    LET list == getChannelsByCategory(category)
    IN  [k \in 1..Len(list) |-> list[k].id]

\* renderFavorites() when the stored item is item: the data-channel-id of
\* the favorite cards, in order.
FavoriteCards(item) ==
    LET favorites == FavoriteChannels(ReadFavorites(item))
    IN  [k \in 1..Len(favorites) |-> favorites[k].id]

renderFavorites == FavoriteCards(storage)

\* The data-category of the tabs renderCategoryTabs() makes.
CategoryTabs ==
    LET categories == getCategories
    IN  {All} \cup {categories[k] : k \in 1..Len(categories)}

\* playChannel(channelId) with the cards as they are rendered and the
\* selected index as it is: the player's fields and the selected index after
\* the call.
playChannel(channelId, cards, index) ==
    LET channel == getChannelById(channelId)
    IN  IF channel = Undefined \/ NothingToPlay(channel)
        THEN [currentChannel |-> currentChannel, isIframeMode |-> isIframeMode,
              player |-> player, selectedIndex |-> index]
        ELSE LET p == loadChannel(channel)
                 cardIndex == IndexOf(cards, channelId)
             IN  [currentChannel |-> p.currentChannel,
                  isIframeMode |-> p.isIframeMode,
                  player |-> p.player,
                  selectedIndex |-> IF cardIndex # 0 THEN cardIndex - 1 ELSE index]

\* channel && (channel.stream || channel.embed)
CanPlay(channel) == channel # Undefined /\ ~NothingToPlay(channel)

\* autoPlayFirstChannel with the default channel tried before the URL's.
autoPlayDefaultFirst ==
    IF CanPlay(getChannelById(DefaultId)) THEN DefaultId
    ELSE IF search # NullItem /\ search # <<>> /\ CanPlay(getChannelById(search))
    THEN search
    ELSE IF Len(getActiveChannels) > 0 THEN getActiveChannels[1].id
    ELSE NullItem

\* autoPlayFirstChannel(): the id it passes to playChannel, null when it
\* plays nothing.
autoPlayFirstChannel ==
    IF search # NullItem /\ search # <<>> /\ CanPlay(getChannelById(search))
    THEN search
    ELSE IF CanPlay(getChannelById(DefaultId)) THEN DefaultId
    ELSE IF Len(getActiveChannels) > 0 THEN getActiveChannels[1].id
    ELSE NullItem

\* What the App's handlers leave alone: the catalog and its loading.
CatalogUntouched ==
    UNCHANGED <<channels, loaded, pc, outcome, returned, late, fetchCount,
                assignCount, firstResult, completed, playlist, parsed>>

\* The player's fields and the selected index become those of the record r.
Played(r) ==
    /\ currentChannel' = r.currentChannel
    /\ isIframeMode' = r.isIframeMode
    /\ player' = r.player
    /\ selectedIndex' = r.selectedIndex

\* App.init() after loadChannels() has resolved: the grid and the favorites
\* are rendered and the first channel is played.
Startup ==
    /\ ~started
    /\ started' = TRUE
    /\ channelCards' = renderChannels(currentCategory)
    /\ favoriteCards' = renderFavorites
    /\ LET channelId == autoPlayFirstChannel
       IN  /\ Played(IF channelId = NullItem
                     THEN [currentChannel |-> currentChannel,
                           isIframeMode |-> isIframeMode, player |-> player,
                           selectedIndex |-> selectedIndex]
                     ELSE playChannel(channelId, channelCards', selectedIndex))
           /\ query' = [op |-> "init"]
    /\ UNCHANGED <<storage, storageFault, search, currentCategory>>
    /\ CatalogUntouched

\* selectCategory with the catalog itself cut down to the category.
SelectCategoryInPlace ==
    /\ started
    /\ \E category \in CategoryTabs :
          /\ currentCategory' = category
          /\ channels' = getChannelsByCategory(category)
          /\ channelCards' = renderChannels(category)
          /\ query' = [op |-> "selectCategory"]
    /\ selectedIndex' = -1
    /\ UNCHANGED <<storage, storageFault, currentChannel, isIframeMode, player,
                   search, started, favoriteCards>>
    /\ UNCHANGED <<loaded, pc, outcome, returned, late, fetchCount,
                   assignCount, firstResult, completed, playlist, parsed>>

\* A click on a category tab: selectCategory(category).
SelectCategory ==
    /\ started
    /\ \E category \in CategoryTabs :
          /\ currentCategory' = category
          /\ channelCards' = renderChannels(category)
          /\ query' = [op |-> "selectCategory"]
    /\ selectedIndex' = -1
    /\ UNCHANGED <<storage, storageFault, currentChannel, isIframeMode, player,
                   search, started, favoriteCards>>
    /\ CatalogUntouched

\* A click on a channel card: playChannel(card.dataset.channelId).
ClickCard ==
    /\ started
    /\ \E k \in 1..Len(channelCards) :
          /\ Played(playChannel(channelCards[k], channelCards, selectedIndex))
          /\ query' = [op |-> "playChannel"]
    /\ UNCHANGED <<storage, storageFault, search, started, currentCategory,
                   channelCards, favoriteCards>>
    /\ CatalogUntouched

\* A click on a favorite card: playChannel(card.dataset.channelId).
ClickFavoriteCard ==
    /\ started
    /\ \E k \in 1..Len(favoriteCards) :
          /\ Played(playChannel(favoriteCards[k], channelCards, selectedIndex))
          /\ query' = [op |-> "playChannel"]
    /\ UNCHANGED <<storage, storageFault, search, started, currentCategory,
                   channelCards, favoriteCards>>
    /\ CatalogUntouched

\* App.toggleFavorite(channelId): the favorite is toggled and the favorites
\* section rendered again.
AppToggleFavorite(channelId) ==
    /\ LET toggled == toggleFavorite(channelId)
       IN  /\ storage' = toggled.storage
           /\ favoriteCards' = FavoriteCards(toggled.storage)
           /\ query' = [op |-> "App.toggleFavorite"]
    /\ UNCHANGED <<storageFault, currentChannel, isIframeMode, player, search,
                   started, currentCategory, selectedIndex, channelCards>>
    /\ CatalogUntouched

\* A click on the favorite button of a channel card.
ClickFavoriteButton ==
    /\ started
    /\ \E k \in 1..Len(channelCards) : AppToggleFavorite(channelCards[k])

\* The keys the model presses.
Keys ==
    {"ArrowUp", "ArrowLeft", "ArrowDown", "ArrowRight", "Enter", "f", "F", " ",
     "0", "1", "2", "3", "9", "x"}

\* parseInt(e.key) for the keys of the model; 0 stands for NaN as well, which
\* fails num >= 1 as 0 does.
ParseInt(key) ==
    CASE key = "1" -> 1
      [] key = "2" -> 2
      [] key = "3" -> 3
      [] key = "9" -> 9
      [] OTHER -> 0

\* navigateChannels without the wrap at the ends.
navigateChannelsNoWrap(direction) ==
    IF selectedIndex = -1
    THEN (IF direction = 1 THEN 0 ELSE Len(channelCards) - 1)
    ELSE selectedIndex + direction

\* navigateChannels(direction): the selected index after the call.
navigateChannels(direction) ==
    LET totalCards == Len(channelCards)
    IN  IF selectedIndex = -1
        THEN (IF direction = 1 THEN 0 ELSE totalCards - 1)
        ELSE LET moved == selectedIndex + direction
             IN  IF moved < 0 THEN totalCards - 1
                 ELSE IF moved >= totalCards THEN 0
                 ELSE moved

\* toggleCurrentFavorite(): the id it toggles, null when there is none.
toggleCurrentFavorite ==
    IF currentChannel # Null THEN currentChannel.id
    ELSE IF selectedIndex >= 0 /\ selectedIndex < Len(channelCards)
    THEN channelCards[selectedIndex + 1]
    ELSE NullItem

\* What a key that changes nothing leaves.
NothingChanged ==
    UNCHANGED <<storage, storageFault, currentChannel, isIframeMode, player,
                search, started, currentCategory, selectedIndex, channelCards,
                favoriteCards>>

\* A keydown event outside an input: handleKeyboard(e).
KeyDown ==
    /\ started
    /\ \E key \in Keys :
          LET totalCards == Len(channelCards)
              num == ParseInt(key)
          IN  /\ query' = IF totalCards = 0 THEN [op |-> "keydown"]
                          ELSE IF key \in {"ArrowUp", "ArrowLeft"}
                          THEN [op |-> "navigateChannels", arg |-> -1]
                          ELSE IF key \in {"ArrowDown", "ArrowRight"}
                          THEN [op |-> "navigateChannels", arg |-> 1]
                          ELSE [op |-> "keydown"]
              /\ IF totalCards = 0 THEN NothingChanged /\ CatalogUntouched
                 ELSE IF key \in {"ArrowUp", "ArrowLeft"}
                 THEN /\ selectedIndex' = navigateChannels(-1)
                      /\ UNCHANGED <<storage, storageFault, currentChannel,
                                     isIframeMode, player, search, started,
                                     currentCategory, channelCards, favoriteCards>>
                      /\ CatalogUntouched
                 ELSE IF key \in {"ArrowDown", "ArrowRight"}
                 THEN /\ selectedIndex' = navigateChannels(1)
                      /\ UNCHANGED <<storage, storageFault, currentChannel,
                                     isIframeMode, player, search, started,
                                     currentCategory, channelCards, favoriteCards>>
                      /\ CatalogUntouched
                 ELSE IF key = "Enter"
                 THEN /\ IF selectedIndex >= 0 /\ selectedIndex < totalCards
                         THEN Played(playChannel(channelCards[selectedIndex + 1],
                                                 channelCards, selectedIndex))
                         ELSE UNCHANGED <<currentChannel, isIframeMode, player,
                                          selectedIndex>>
                      /\ UNCHANGED <<storage, storageFault, search, started,
                                     currentCategory, channelCards, favoriteCards>>
                      /\ CatalogUntouched
                 ELSE IF key \in {"f", "F"}
                 THEN IF toggleCurrentFavorite # NullItem
                      THEN /\ LET toggled == toggleFavorite(toggleCurrentFavorite)
                              IN  /\ storage' = toggled.storage
                                  /\ favoriteCards' = FavoriteCards(toggled.storage)
                           /\ UNCHANGED <<storageFault, currentChannel, isIframeMode,
                                          player, search, started, currentCategory,
                                          selectedIndex, channelCards>>
                           /\ CatalogUntouched
                      ELSE NothingChanged /\ CatalogUntouched
                 ELSE IF key = " "
                 THEN NothingChanged /\ CatalogUntouched
                 ELSE IF num >= 1 /\ num <= 9 /\ num <= totalCards
                 THEN /\ LET r == playChannel(channelCards[num], channelCards,
                                              selectedIndex)
                         IN  /\ currentChannel' = r.currentChannel
                             /\ isIframeMode' = r.isIframeMode
                             /\ player' = r.player
                      /\ selectedIndex' = num - 1
                      /\ UNCHANGED <<storage, storageFault, search, started,
                                     currentCategory, channelCards, favoriteCards>>
                      /\ CatalogUntouched
                 ELSE NothingChanged /\ CatalogUntouched

\* A playlist with an entry for the default channel, and what the loader
\* makes of it.
DefaultEntry == Extinf([id |-> DefaultId, name |-> <<"D">>, group |-> News], <<>>)
DefaultPlaylist == <<FullEntry, UrlLine, DefaultEntry, PaddedUrlLine>>
DefaultResult == parseM3U8(Text(DefaultPlaylist))

\* Channel objects with the default id: one with nothing to play, one with
\* an embed.
DefaultPlaceholder == [id |-> DefaultId, name |-> <<"D">>, category |-> News]
DefaultEmbed ==
    [id |-> DefaultId, name |-> <<"D">>, category |-> Kids, embed |-> <<"e">>]

\* The catalogs the App starts on: the empty one of a failed load, two the
\* loader makes of a playlist (one with an id twice, one with the default
\* channel), and catalogs of the Channel type with distinct ids that hold
\* records with an embed or with nothing to play.
AppCatalogs ==
    {<<>>,
     SampleResult[MixedPlaylist],
     DefaultResult,
     <<Placeholder, EmbedOnly, StreamOnly>>,
     <<EmptyStream, DefaultPlaceholder, WithLogo>>,
     <<EmbedOnly>>,
     <<StreamOnly, DefaultEmbed>>}

\* urlParams.get('channel'): null without the parameter, or its value.
SearchArgs == {NullItem, <<>>, <<"a">>, <<"b">>, <<"c">>}

\* What localStorage holds when the App starts.
AppStorage == {NullItem, JsonStringify(<<(<<"a">>), (<<"x">>)>>)}

InitApp ==
    /\ channels \in AppCatalogs
    /\ loaded = TRUE
    /\ pc = <<>>
    /\ outcome = <<>>
    /\ returned = <<>>
    /\ late = <<>>
    /\ fetchCount = 0
    /\ assignCount = 0
    /\ firstResult = <<>>
    /\ completed = 0
    /\ playlist = <<>>
    /\ parsed = [done |-> FALSE, trace |-> <<>>, scanned |-> {}]
    /\ query = NoQuery
    /\ storage \in AppStorage
    /\ storageFault = {}
    /\ currentChannel = Null
    /\ isIframeMode = FALSE
    /\ player = "null"
    /\ search \in SearchArgs
    /\ started = FALSE
    /\ currentCategory = All
    /\ selectedIndex = -1
    /\ channelCards = <<>>
    /\ favoriteCards = <<>>

NextApp ==
    \/ Startup
    \/ SelectCategory
    \/ ClickCard
    \/ ClickFavoriteCard
    \/ ClickFavoriteButton
    \/ KeyDown
    \/ ClearFavorites

SpecApp == InitApp /\ [][NextApp]_vars

-----------------------------------------------------------------------------
(* The loaded catalog in use: the App's handlers, with the player and the
   FavoritesManager they drive, and the catalog's queries together *)

InitUse ==
    /\ channels = <<Placeholder, EmbedOnly, StreamOnly>>
    /\ loaded = TRUE
    /\ pc = <<>>
    /\ outcome = <<>>
    /\ returned = <<>>
    /\ late = <<>>
    /\ fetchCount = 0
    /\ assignCount = 0
    /\ firstResult = <<>>
    /\ completed = 0
    /\ playlist = <<>>
    /\ parsed = [done |-> FALSE, trace |-> <<>>, scanned |-> {}]
    /\ query = NoQuery
    /\ storage = NullItem
    /\ storageFault = {}
    /\ currentChannel = Null
    /\ isIframeMode = FALSE
    /\ player = "null"
    /\ search \in {NullItem, <<"c">>}
    /\ started = FALSE
    /\ currentCategory = All
    /\ selectedIndex = -1
    /\ channelCards = <<>>
    /\ favoriteCards = <<>>

NextUse ==
    \/ NextApp
    \/ NextQuery

SpecUse == InitUse /\ [][NextUse]_vars

-----------------------------------------------------------------------------
(* The VideoPlayer alone: loadChannel called with any argument *)

\* A channel whose embed is the empty string.
EmptyEmbed ==
    [id |-> <<"f">>, name |-> <<"G">>, category |-> Kids, stream |-> <<"y">>,
     embed |-> <<>>]

\* The arguments of loadChannel: no channel at all, channels of the Channel
\* type, and the records the loader makes of a playlist.
PlayerArgs ==
    {Null, Undefined, DefaultPlaceholder, DefaultEmbed, EmptyEmbed}
        \cup SampleChannels
        \cup {SampleResult[MixedPlaylist][k] : k \in 1..Len(SampleResult[MixedPlaylist])}

\* The player as the object literal makes it: no instance, no channel, video
\* mode.
InitPlayer ==
    /\ channels = <<>>
    /\ loaded = FALSE
    /\ pc = <<>>
    /\ outcome = <<>>
    /\ returned = <<>>
    /\ late = <<>>
    /\ fetchCount = 0
    /\ assignCount = 0
    /\ firstResult = <<>>
    /\ completed = 0
    /\ playlist = <<>>
    /\ parsed = [done |-> FALSE, trace |-> <<>>, scanned |-> {}]
    /\ query = NoQuery
    /\ AppIdle

\* VideoPlayer.loadChannel(channel); the call and the fields it found are
\* kept in query.
LoadChannel ==
    \E channel \in PlayerArgs :
        LET r == loadChannel(channel)
        IN  /\ query' = [op |-> "loadChannel", arg |-> channel, before |-> SamePlayer]
            /\ currentChannel' = r.currentChannel
            /\ isIframeMode' = r.isIframeMode
            /\ player' = r.player
            /\ UNCHANGED <<channels, loaded, pc, outcome, returned, late,
                           fetchCount, assignCount, firstResult, completed,
                           playlist, parsed, storage, storageFault, search,
                           started, currentCategory, selectedIndex,
                           channelCards, favoriteCards>>

NextPlayer == LoadChannel

SpecPlayer == InitPlayer /\ [][NextPlayer]_vars

-----------------------------------------------------------------------------
(* What the playlist's author wrote, for the parser's properties *)

\* The lines of the document that are not blank: line k of these is
\* line k of the parser's trimmed, non-empty lines.
Written(doc) == SelectSeq(doc, LAMBDA d : d.kind # "blank")

\* The #EXTINF: line d carries a tvg-id attribute with a value.
WroteId(d) == d.kind = "extinf" /\ "id" \in DOMAIN d.attrs /\ d.attrs.id # <<>>

\* The #EXTINF: line d carries a name: a tvg-name, or a label after its comma.
WroteName(d) ==
    /\ d.kind = "extinf"
    /\ \/ "name" \in DOMAIN d.attrs /\ d.attrs.name # <<>>
       \/ "label" \in DOMAIN d.attrs /\ d.attrs.label # <<>>

\* The record the pair of lines d, u describes.
Described(d, u) ==
    LET a == d.attrs
        named == [id |-> a.id,
                  name |-> IF "name" \in DOMAIN a THEN a.name ELSE a.label,
                  stream |-> u.text]
        logo == IF "logo" \in DOMAIN a THEN [logo |-> a.logo] ELSE NoProps
        group == IF "group" \in DOMAIN a THEN [category |-> a.group] ELSE NoProps
    IN  named @@ logo @@ group

\* The document is made of valid metadata+URL pairs only.
MadeOfPairs(doc) ==
    /\ Len(doc) % 2 = 0
    /\ \A k \in 1..Len(doc) :
          IF k % 2 = 1 THEN WroteId(doc[k]) /\ WroteName(doc[k])
          ELSE doc[k].kind = "url"

ParsedChannels == [k \in 1..Len(parsed.trace) |-> parsed.trace[k].channel]

\* C6: the parser emits a record for an #EXTINF: line only if id, name and
\* stream are all present and non-empty: every emitted record has the three
\* and was built from a line that carries a tvg-id, so a line without tvg-id
\* yields no record whatever else it carries and whatever follows it, and a
\* dropped entry leaves no partial record behind.
C6_EmitsOnlyComplete ==
    parsed.done =>
        \A k \in 1..Len(parsed.trace) :
            LET ch == parsed.trace[k].channel
                d == Written(playlist)[parsed.trace[k].at]
            IN  /\ WroteId(d)
                /\ {"id", "name", "stream"} \subseteq DOMAIN ch
                /\ ch.id # <<>> /\ ch.name # <<>> /\ ch.stream # <<>>
                /\ ch.id = d.attrs.id

\* C6 witness: a parsed document that opens with a line without tvg-id (with
\* a name, a logo and a group) directly followed by a URL line, from which
\* nothing was emitted.
C6_Witness ==
    /\ parsed.done
    /\ Len(playlist) >= 2
    /\ playlist[1] = NoIdEntry
    /\ playlist[2].kind = "url"
    /\ \A k \in 1..Len(parsed.trace) : parsed.trace[k].at # 1

\* C7: an #EXTINF: line that is the last non-empty line of the document, or
\* whose next non-empty line starts with '#', yields no record; the document
\* of two entries whose second has no URL line parses to the first record.
C7_NoUrlNoRecord ==
    parsed.done =>
        LET w == Written(playlist)
        IN  /\ \A i \in 1..Len(w) :
                  (/\ w[i].kind = "extinf"
                   /\ \/ i = Len(w)
                      \/ w[i + 1].kind \in {"extinf", "comment"})
                  => \A k \in 1..Len(parsed.trace) : parsed.trace[k].at # i
            /\ playlist = <<FullEntry, UrlLine, LabelEntry>>
                  => ParsedChannels = <<Described(FullEntry, UrlLine)>>

\* C7 witness: the parsed two-entry document whose second entry has no URL.
C7_Witness ==
    /\ parsed.done
    /\ playlist = <<FullEntry, UrlLine, LabelEntry>>
    /\ Len(parsed.trace) = 1

\* C8: a document made of valid metadata+URL pairs parses to one record per
\* pair, in document order, whose id, name, logo, category and stream are the
\* attributes written on the metadata line and the line that follows it.
C8_PairsRoundTrip ==
    (parsed.done /\ MadeOfPairs(playlist)) =>
        ParsedChannels =
            [k \in 1..(Len(playlist) \div 2) |->
                Described(playlist[2 * k - 1], playlist[2 * k])]

\* C8 witness: a parsed document of two pairs with different entries, one
\* named by its label and with a padded URL line.
C8_Witness ==
    /\ parsed.done
    /\ playlist = <<LabelEntry, PaddedUrlLine, FullEntry, UrlLine>>
    /\ Len(parsed.trace) = 2

\* C18: the parser makes one forward pass in which the URL line directly
\* after a metadata line is skipped by the cursor, whether or not a record is
\* emitted for the metadata line; the records come from distinct metadata
\* lines in document order, each with the URL line directly after its
\* metadata line as stream, so no line is the stream of two records, a URL
\* line elsewhere gives nothing, and there are at most as many records as
\* metadata lines.
C18_SinglePass ==
    parsed.done =>
        LET w == Written(playlist)
            t == parsed.trace
        IN  /\ \A i \in 1..(Len(w) - 1) :
                  (w[i].kind = "extinf" /\ w[i + 1].kind = "url")
                      => (i \in parsed.scanned /\ (i + 1) \notin parsed.scanned)
            /\ \A k, l \in 1..Len(t) : k < l => t[k].at < t[l].at
            /\ \A k \in 1..Len(t) :
                  /\ w[t[k].at].kind = "extinf"
                  /\ t[k].at + 1 <= Len(w)
                  /\ w[t[k].at + 1].kind = "url"
                  /\ t[k].channel.stream = w[t[k].at + 1].text
            /\ Len(t) <= Cardinality({i \in 1..Len(w) : w[i].kind = "extinf"})

\* C18 witness: a parsed document of a metadata line and two URL lines: one
\* record, with the first URL line as its stream; the cursor visited the
\* metadata line and the second URL line.
C18_Witness ==
    /\ parsed.done
    /\ playlist = <<FullEntry, UrlLine, PaddedUrlLine>>
    /\ parsed.scanned = {1, 3}
    /\ Len(parsed.trace) = 1
    /\ parsed.trace[1].channel.stream = UrlLine.text

-----------------------------------------------------------------------------
(* Properties of the queries *)

\* sub holds elements of seq in the order they have in seq.
IsSubsequence(sub, seq) ==
    \E f \in [1..Len(sub) -> 1..Len(seq)] :
        /\ \A j, k \in 1..Len(sub) : j < k => f[j] < f[k]
        /\ \A k \in 1..Len(sub) : sub[k] = seq[f[k]]

\* The elements of seq at the positions in at, in increasing position.
AtPositions(seq, at) ==
    [k \in 1..Cardinality(at) |->
        seq[CHOOSE i \in at : Cardinality({j \in at : j < i}) = k - 1]]

\* The record has a non-empty stream or has an embed.
Playable(ch) == (Has(ch, "stream") /\ ch.stream # <<>>) \/ Has(ch, "embed")

\* A string: every element is one character.
IsString(v) == \A i \in 1..Len(v) : \E k \in 1..Len(CharOrder) : CharOrder[k] = v[i]

C9_CategoriesSortedStrings ==
    query.op = "getCategories" =>
        LET r == query.result
        IN  /\ \A k \in 1..Len(r) : IsString(r[k])
            /\ \A k \in 1..(Len(r) - 1) : StrLess(r[k], r[k + 1])
            /\ {r[k] : k \in 1..Len(r)} =
                  {channels[i].category :
                      i \in {j \in 1..Len(channels) : Has(channels[j], "category")}}

\* C10: getChannelsByCategory("all") returns the catalog as it is; for any
\* other argument it returns the records whose category equals the argument,
\* all of them and in catalog order, and nothing when there is none.
C10_ByCategory ==
    query.op = "getChannelsByCategory" =>
        IF query.arg = All THEN query.result = channels
        ELSE LET at == {i \in 1..Len(channels) :
                           /\ "category" \in DOMAIN channels[i]
                           /\ channels[i].category = query.arg}
             IN  /\ query.result = AtPositions(channels, at)
                 /\ IsSubsequence(query.result, channels)
                 /\ at = {} => query.result = <<>>

\* C10 witness: a category query whose result is some but not all of the
\* catalog, in a catalog that also holds a record of category "all".
C10_Witness ==
    /\ query.op = "getChannelsByCategory"
    /\ query.arg = News
    /\ Len(query.result) = 2
    /\ Len(channels) = 3
    /\ \E i \in 1..Len(channels) : channels[i] = EmptyStream

-----------------------------------------------------------------------------
(* Properties of loadChannels *)

Failures == {"rejected", "notok", "bodyfailed"}

\* C2: the playlist is fetched at most once and the channel collection is
\* assigned at most once, whatever the interleaving of loadChannels() calls.
C2_PopulatedOnce == fetchCount <= 1 /\ assignCount <= 1

\* C3: once a call has completed, every call issued later returns the
\* sequence that completed call left in the catalog, from the cache.
C3_LaterLoadsCached ==
    \A c \in Calls :
        (late[c] /\ pc[c] = "done") =>
            outcome[c] = "cached" /\ returned[c] = firstResult

\* C4: a step in which a call's fetch of the playlist fails (the fetch
\* rejects, the response is not ok, or reading the body fails) completes the
\* call without raising, with the catalog empty and marked loaded, and the
\* call returns the empty sequence.
C4_FailureFallsBack ==
    [][\A c \in Calls :
          (outcome[c] = "none" /\ outcome'[c] \in Failures) =>
              /\ pc'[c] = "done"
              /\ channels' = <<>>
              /\ loaded'
              /\ returned'[c] = <<>>]_vars

\* C4 witness: three calls have failed, one in each of the three ways, the
\* last of them after another had stored a catalog; the catalog is empty.
C4_Witness ==
    /\ {outcome[c] : c \in Calls} = Failures
    /\ \A c \in Calls : pc[c] = "done"
    /\ channels = <<>>
    /\ loaded

\* What each query returns on an empty catalog.
EmptyResult(op) ==
    CASE op \in {"getChannelCount", "getActiveChannelCount"} -> 0
      [] op = "getChannelById" -> Undefined
      [] OTHER -> <<>>

\* C5: while no loadChannels() call has completed, the catalog is not marked
\* loaded and every query answers as on an empty catalog.
C5_EmptyBeforeLoad ==
    completed = 0 =>
        /\ ~loaded
        /\ getChannels = <<>>
        /\ getCategories = <<>>
        /\ \A category \in CategoryArgs : getChannelsByCategory(category) = <<>>
        /\ getActiveChannels = <<>>
        /\ \A id \in IdArgs : getChannelById(id) = Undefined
        /\ getChannelCount = 0
        /\ getActiveChannelCount = 0
        /\ query.op # "none" => query.result = EmptyResult(query.op)

\* C5 witness: a query is answered while one call is suspended on its fetch
\* and another on reading the body, and none has completed.
C5_Witness ==
    /\ completed = 0
    /\ \E c, d \in Calls : pc[c] = "fetching" /\ pc[d] = "reading"
    /\ query.op = "getChannelById"

-----------------------------------------------------------------------------
(* Properties of the loaded catalog *)

\* The elements of a sequence.
Range(seq) == {seq[k] : k \in 1..Len(seq)}

\* C11: the ids of the records of the catalog are pairwise distinct, whatever
\* playlist was loaded.
C11_IdsDistinct ==
    \A i, j \in 1..Len(channels) :
        i # j => channels[i].id # channels[j].id

\* C12: every record of the catalog has a non-empty id, a non-empty name and
\* a non-empty category.
C12_IdNameCategory ==
    \A i \in 1..Len(channels) :
        /\ Truthy(channels[i], "id")
        /\ Truthy(channels[i], "name")
        /\ Truthy(channels[i], "category")

\* C13: getChannelById returns the first record of the catalog, in catalog
\* order, whose id is the argument, and undefined when there is none; after
\* the playlist with two valid entries of one id is loaded, both records are
\* in the results of getChannels and getActiveChannels and getChannelById
\* returns the first of them, never the second.
C13_FirstById ==
    /\ query.op = "getChannelById" =>
          LET at == {i \in 1..Len(channels) : channels[i].id = query.arg}
          IN  IF at = {} THEN query.result = Undefined
              ELSE \E i \in at : /\ \A j \in at : i <= j
                                 /\ query.result = channels[i]
    /\ channels = SampleResult[MixedPlaylist] =>
          LET first == Described(FullEntry, UrlLine)
              second == Described(NoGroupEntry, UrlLine)
          IN  /\ first.id = second.id /\ first # second
              /\ {first, second} \subseteq Range(getChannels)
              /\ {first, second} \subseteq Range(getActiveChannels)
              /\ getChannelById(first.id) = first
              /\ query.op = "getChannelById" => query.result # second

\* C13 witness: the playlist with two entries of id "a" is loaded and
\* getChannelById("a") has returned the record of the first of them.
C13_Witness ==
    /\ channels = SampleResult[MixedPlaylist]
    /\ query.op = "getChannelById"
    /\ query.arg = <<"a">>
    /\ query.result = Described(FullEntry, UrlLine)

\* C19: once a loadChannels() call has completed, every record of the
\* catalog has a non-empty stream, getActiveChannels returns what getChannels
\* returns and getActiveChannelCount what getChannelCount returns.
C19_AllActive ==
    completed > 0 =>
        /\ \A i \in 1..Len(channels) : Truthy(channels[i], "stream")
        /\ getActiveChannels = getChannels
        /\ getActiveChannelCount = getChannelCount
        /\ query.op = "getActiveChannels" => query.result = channels
        /\ query.op = "getActiveChannelCount" => query.result = Len(channels)

\* C19 witness: getActiveChannels has answered on a loaded catalog of three
\* records.
C19_Witness ==
    /\ completed > 0
    /\ Len(channels) = 3
    /\ query.op = "getActiveChannels"
    /\ Len(query.result) = 3

-----------------------------------------------------------------------------
(* Properties of FavoritesManager *)

\* The favorites list the stored item denotes: none when nothing, the empty
\* string or a text that is not JSON is stored.
StoredFavorites(item) ==
    IF item = NullItem \/ item = <<>> THEN <<>>
    ELSE LET p == JsonParse(item)
         IN  IF p.ok THEN p.value ELSE <<>>

\* The position of id in the list, 0 when it is not in it.
Position(list, id) == IndexOf(list, id)

\* C15: getFavoriteChannels returns, in the order of the stored favorite
\* ids, the catalog record getChannelById resolves each id to, for the ids
\* some record of the catalog has; the other ids give nothing, and the
\* stored item is left as it was.
C15_FavoriteChannels ==
    query.op = "getFavoriteChannels" =>
        LET found == SelectSeq(query.read,
                               LAMBDA id : \E i \in 1..Len(channels) :
                                              channels[i].id = id)
        IN  /\ query.result = [k \in 1..Len(found) |-> getChannelById(found[k])]
            /\ \A k \in 1..Len(query.result) : query.result[k] \in Range(channels)
            /\ storage = query.before

\* C15 witness: with the favorites "b", "x", "a" stored and a catalog that
\* has records for "b" and "a" only, getFavoriteChannels has returned two
\* records.
C15_Witness ==
    /\ query.op = "getFavoriteChannels"
    /\ query.read = <<(<<"b">>), (<<"x">>), (<<"a">>)>>
    /\ channels = SampleResult[MixedPlaylist]
    /\ Len(query.result) = 2
    /\ query.result[1].id = <<"b">>

\* C16: after toggleFavorite(id) has returned, isFavorite(id) is the value it
\* returned.
C16_ToggleReportsState ==
    query.op = "toggleFavorite" => isFavorite(query.arg) = query.result

\* C20: after every step from a stored favorites list without a duplicate,
\* the stored list holds no id twice; addFavorite of an id the list holds and
\* removeFavorite of an id it does not hold return false and leave the stored
\* item as it was; and two ids that are in the list before and after the
\* step are in the same order after it as before.
C20_NoDuplicateFavorites ==
    [][LET old == StoredFavorites(storage)
           new == StoredFavorites(storage')
       IN  /\ \A j, k \in 1..Len(new) : j # k => new[j] # new[k]
           /\ (query'.op = "addFavorite" /\ Includes(query'.read, query'.arg))
                 => (query'.result = FALSE /\ storage' = storage)
           /\ (query'.op = "removeFavorite" /\ ~Includes(query'.read, query'.arg))
                 => (query'.result = FALSE /\ storage' = storage)
           /\ \A x, y \in FavoriteIds :
                 (/\ Includes(old, x) /\ Includes(old, y)
                  /\ Includes(new, x) /\ Includes(new, y))
                 => (Position(old, x) < Position(old, y)
                       <=> Position(new, x) < Position(new, y))]_vars

\* C20 witness: addFavorite of an id already stored has returned false with
\* three favorites stored, after another id was removed from the middle of
\* the list and added again.
C20_Witness ==
    /\ query.op = "addFavorite"
    /\ query.result = FALSE
    /\ storageFault = {}
    /\ StoredFavorites(storage) = <<(<<"b">>), (<<"x">>), (<<"a">>)>>

-----------------------------------------------------------------------------
(* Properties of the App *)

\* C14: right after App.init has run on the loaded catalog, the channel in
\* the player is the record getChannelById gives for the URL's channel
\* parameter if there is one with a stream or an embed; otherwise the record
\* it gives for the default id if that has a stream or an embed; otherwise
\* the first element of getActiveChannels; otherwise none. The channel in the
\* player is a record of the catalog with a stream or an embed.
C14_StartupChoice ==
    query.op = "init" =>
        LET deep == IF search = NullItem \/ search = <<>> THEN Undefined
                    ELSE getChannelById(search)
            default == getChannelById(DefaultId)
            active == getActiveChannels
            chosen == IF deep # Undefined /\ Playable(deep) THEN deep
                      ELSE IF default # Undefined /\ Playable(default) THEN default
                      ELSE IF active # <<>> THEN active[1]
                      ELSE Null
        IN  /\ currentChannel = chosen
            /\ currentChannel # Null =>
                  /\ currentChannel \in Range(channels)
                  /\ Playable(currentChannel)

\* C14 witness: the URL names a channel the catalog does not have, the
\* default channel is in the catalog with nothing to play, and App.init has
\* played the first active channel, the third record of the catalog.
C14_Witness ==
    /\ query.op = "init"
    /\ search = <<"a">>
    /\ channels = <<EmptyStream, DefaultPlaceholder, WithLogo>>
    /\ currentChannel = WithLogo
    /\ selectedIndex = 2

\* C17: no step of the App's handlers (startup, category tab, channel and
\* favorite cards, favorite button, keys), of the player they drive, of the
\* FavoritesManager or of the catalog's queries changes the catalog's
\* channels or its loaded flag.
C17_CatalogUnchanged ==
    [][channels' = channels /\ loaded' = loaded]_vars

\* C17 witness: a category is selected, an embed plays in the iframe, a
\* favorite is stored and a catalog query has just answered.
C17_Witness ==
    /\ started
    /\ currentCategory = News
    /\ currentChannel # Null
    /\ isIframeMode
    /\ getFavorites # <<>>
    /\ selectedIndex >= 0
    /\ query.op = "getCategories"
    /\ loaded
    /\ Len(channels) = 3

\* C21: in every step of the App, the selected index is -1 or the index of a
\* rendered channel card before and after it; an arrow key moves it by one
\* card around the ring of cards (from no selection to the first card going
\* forward, to the last going backward); and selecting a category leaves it
\* at -1.
C21_SelectedIndexValid ==
    [][LET n == Len(channelCards)
           Valid(index, cards) == index = -1 \/ (0 <= index /\ index < Len(cards))
       IN  /\ Valid(selectedIndex, channelCards)
           /\ Valid(selectedIndex', channelCards')
           /\ query'.op = "navigateChannels" =>
                 /\ channelCards' = channelCards
                 /\ selectedIndex' =
                       IF selectedIndex = -1
                       THEN (IF query'.arg = 1 THEN 0 ELSE n - 1)
                       ELSE (selectedIndex + query'.arg + n) % n
           /\ query'.op = "selectCategory" => selectedIndex' = -1]_vars

\* C21 witness: with a category selected, an arrow key going backward has
\* put the selection on the last of two cards.
C21_Witness ==
    /\ query.op = "navigateChannels"
    /\ query.arg = -1
    /\ currentCategory = News
    /\ Len(channelCards) = 2
    /\ selectedIndex = 1

-----------------------------------------------------------------------------
(* Properties of the VideoPlayer *)

\* The channel has an address under the property: a non-empty string.
HasAddress(channel, prop) == Has(channel, prop) /\ channel[prop] # <<>>

\* C22: after any loadChannel calls the current channel is null or has a
\* stream or an embed address; the player is in iframe mode exactly when the
\* current channel has an embed address, whether or not it has a stream too;
\* in iframe mode there is no JW Player instance; and a call with no channel
\* or with a channel that has neither address left the current channel, the
\* mode and the instance as they were.
C22_PlayerMode ==
    /\ \/ currentChannel = Null
       \/ HasAddress(currentChannel, "stream")
       \/ HasAddress(currentChannel, "embed")
    /\ isIframeMode <=>
          (currentChannel # Null /\ HasAddress(currentChannel, "embed"))
    /\ isIframeMode => player = "null"
    /\ query.op = "loadChannel" =>
          LET missing == query.arg = Null \/ query.arg = Undefined
              lacking == /\ ~missing
                         /\ ~HasAddress(query.arg, "stream")
                         /\ ~HasAddress(query.arg, "embed")
          IN  /\ (missing \/ lacking) => SamePlayer = query.before
              /\ ~(missing \/ lacking) => currentChannel = query.arg

\* C22 witness: while a stream was playing in a JW Player instance, a channel
\* with both a stream and an embed was loaded: iframe mode, no instance.
C22_Witness ==
    /\ query.op = "loadChannel"
    /\ query.arg = StreamAndEmbed
    /\ query.before.player = "jw"
    /\ currentChannel = StreamAndEmbed
    /\ isIframeMode
    /\ player = "null"

\* C22 witness of the rejected call: while an embed was showing, a call with
\* a channel that has neither address changed nothing.
C22_RejectedWitness ==
    /\ query.op = "loadChannel"
    /\ query.arg = Placeholder
    /\ currentChannel = EmbedOnly
    /\ isIframeMode

=============================================================================
